---- MODULE Spec2Model ----
(***************************************************************************)
(* Runner-Worker dispatch protocol of proFit (profit/run/zeromq.py).       *)
(*                                                                         *)
(* Frames are byte strings, modelled as sequences of integers 0..255.      *)
(* A multipart message is a sequence of frames.                            *)
(*                                                                         *)
(*   SpecCoord   the coordinator (ZeroMQRunnerInterface): poll() receives  *)
(*               any multipart message a peer of the ROUTER socket can     *)
(*               deliver and hands it to handle_msg().                     *)
(*   SpecWorker  one worker (ZeroMQWorkerInterface): its caller invokes    *)
(*               request(), retrieve() and transmit(); each wait for a     *)
(*               reply ends with a timeout or with any reply a peer can    *)
(*               send.                                                     *)
(***************************************************************************)
EXTENDS Integers, Sequences, FiniteSets, TLC

----------------------------------------------------------------------------
(* Bounds of the model *)

\* number of runs of the campaign (constructor argument `size`)
Size == 2
\* payload values (reported output / elapsed time) range over 1..MaxVal
MaxVal == 2
\* number of messages the coordinator receives in one campaign
MaxHandled == 2
\* the configured `retries` ranges over 0..MaxRetries
MaxRetries == 2
\* malformed replies a worker receives within one request()
MaxMalformed == 1
\* calls of request() / retrieve() / transmit() on one worker
MaxCalls == 2
MaxSession == 3
\* number of classes derived from Component
MaxClasses == 3

----------------------------------------------------------------------------
(* Bytes and text *)

Ascii ==
    (" " :> 32) @@ ("\"" :> 34) @@ ("+" :> 43) @@ ("," :> 44) @@ ("-" :> 45) @@
    ("0" :> 48) @@ ("1" :> 49) @@ ("2" :> 50) @@ ("3" :> 51) @@ ("4" :> 52) @@
    ("5" :> 53) @@ ("6" :> 54) @@ ("7" :> 55) @@ ("8" :> 56) @@ ("9" :> 57) @@
    ("A" :> 65) @@ ("C" :> 67) @@ ("D" :> 68) @@ ("E" :> 69) @@ ("G" :> 71) @@
    ("I" :> 73) @@ ("K" :> 75) @@ ("M" :> 77) @@ ("N" :> 78) @@ ("P" :> 80) @@
    ("R" :> 82) @@ ("T" :> 84) @@ ("Y" :> 89) @@ ("[" :> 91) @@ ("]" :> 93) @@
    ("_" :> 95) @@ ("e" :> 101) @@ ("f" :> 102) @@ ("i" :> 105) @@
    ("n" :> 110) @@ ("p" :> 112) @@ ("q" :> 113) @@ ("r" :> 114) @@
    ("t" :> 116) @@ ("u" :> 117) @@ ("x" :> 120)

\* b"..." : the bytes of an ASCII text given as a sequence of characters
Bytes(s) == [k \in 1..Len(s) |-> Ascii[s[k]]]

Digit(n) == <<48 + n>>

RECURSIVE StrNat(_)
StrNat(n) == IF n < 10 THEN Digit(n) ELSE StrNat(n \div 10) \o Digit(n % 10)

\* str(n), as in the f-string f"req_{self.run_id}"
Str(n) == IF n < 0 THEN Bytes(<<"-">>) \o StrNat(-n) ELSE StrNat(n)

IsDigit(c) == c >= 48 /\ c <= 57
IsSpace(c) == c = 32 \/ (c >= 9 /\ c <= 13)

RECURSIVE LStrip(_)
LStrip(b) == IF b # <<>> /\ IsSpace(Head(b)) THEN LStrip(Tail(b)) ELSE b

RECURSIVE RStrip(_)
RStrip(b) ==
    IF b # <<>> /\ IsSpace(b[Len(b)]) THEN RStrip(SubSeq(b, 1, Len(b) - 1)) ELSE b

\* the digits of an integer literal: digits, single underscores between them
DigitsOk(d) ==
    /\ d # <<>>
    /\ IsDigit(d[1])
    /\ IsDigit(d[Len(d)])
    /\ \A k \in 1..Len(d) : IsDigit(d[k]) \/ d[k] = 95
    /\ \A k \in 1..(Len(d) - 1) : ~(d[k] = 95 /\ d[k + 1] = 95)

RECURSIVE DigitsVal(_, _)
DigitsVal(d, acc) ==
    IF d = <<>> THEN acc
    ELSE IF Head(d) = 95 THEN DigitsVal(Tail(d), acc)
    ELSE DigitsVal(Tail(d), 10 * acc + (Head(d) - 48))

\* int(b) of a bytes object: [ok |-> TRUE, val |-> n], or ok = FALSE for ValueError
PyInt(b) ==
    LET s    == RStrip(LStrip(b))
        sgn  == s # <<>> /\ (s[1] = 45 \/ s[1] = 43)
        d    == IF sgn THEN Tail(s) ELSE s
    IN  IF DigitsOk(d)
        THEN [ok |-> TRUE,
              val |-> IF sgn /\ s[1] = 45 THEN -DigitsVal(d, 0) ELSE DigitsVal(d, 0)]
        ELSE [ok |-> FALSE, val |-> 0]

\* seq[idx] of a Python sequence / numpy array of length n:
\* the position addressed (0-based), or -1 for IndexError
PyIndex(n, idx) ==
    IF idx >= 0 /\ idx < n THEN idx
    ELSE IF idx < 0 /\ idx >= -n THEN n + idx
    ELSE -1

RECURSIVE ToBytes(_, _)
\* little-endian bytes of an unsigned integer of n bytes (wraps at 2^(8n))
ToBytes(v, n) == IF n = 0 THEN <<>> ELSE <<v % 256>> \o ToBytes(v \div 256, n - 1)

RECURSIVE FromBytes(_)
FromBytes(b) == IF b = <<>> THEN 0 ELSE Head(b) + 256 * FromBytes(Tail(b))

\* np.frombuffer(buf, dtype) for a dtype of `itemsize` bytes holding one unsigned
\* integer: [ok, arr]; ok = FALSE for ValueError (buffer size not a multiple)
FromBuffer(buf, itemsize) ==
    IF Len(buf) % itemsize # 0
    THEN [ok |-> FALSE, arr |-> <<>>]
    ELSE [ok |-> TRUE,
          arr |-> [k \in 1..(Len(buf) \div itemsize) |->
                     FromBytes(SubSeq(buf, (k - 1) * itemsize + 1, k * itemsize))]]

----------------------------------------------------------------------------
(* json.dumps / json.loads on the values the schema exchange uses.          *)
(* Python values: [str |-> bytes], [int |-> n], [list |-> items],           *)
(* [tuple |-> items].                                                       *)

PyStr(s) == [str |-> Bytes(s)]
PyList(items) == [list |-> items]
PyTuple(items) == [tuple |-> items]

IsStr(v) == DOMAIN v = {"str"}
IsInt(v) == DOMAIN v = {"int"}
IsList(v) == DOMAIN v = {"list"}
IsTuple(v) == DOMAIN v = {"tuple"}

RECURSIVE JsonDumps(_)
RECURSIVE JsonJoin(_)
\* the elements of an array, separated by ", " (json.dumps default separators)
JsonJoin(items) ==
    IF items = <<>> THEN <<>>
    ELSE IF Len(items) = 1 THEN JsonDumps(items[1])
    ELSE JsonDumps(items[1]) \o Bytes(<<",", " ">>) \o JsonJoin(Tail(items))

\* json.dumps(v): tuples and lists both become JSON arrays
JsonDumps(v) ==
    IF IsStr(v) THEN Bytes(<<"\"">>) \o v.str \o Bytes(<<"\"">>)
    ELSE IF IsInt(v) THEN Str(v.int)
    ELSE IF IsList(v) THEN Bytes(<<"[">>) \o JsonJoin(v.list) \o Bytes(<<"]">>)
    ELSE Bytes(<<"[">>) \o JsonJoin(v.tuple) \o Bytes(<<"]">>)

JsonFail == [ok |-> FALSE, val |-> [int |-> 0], rest |-> <<>>]

RECURSIVE JsonString(_, _)
\* the characters of a string up to the closing quote (no escapes)
JsonString(b, acc) ==
    IF b = <<>> THEN JsonFail
    ELSE IF Head(b) = 34 THEN [ok |-> TRUE, val |-> [str |-> acc], rest |-> Tail(b)]
    ELSE JsonString(Tail(b), Append(acc, Head(b)))

RECURSIVE JsonDigits(_, _)
JsonDigits(b, acc) ==
    IF b # <<>> /\ IsDigit(Head(b)) THEN JsonDigits(Tail(b), Append(acc, Head(b)))
    ELSE [digits |-> acc, rest |-> b]

\* a JSON integer: optional minus, digits without leading zero
JsonNumber(b) ==
    LET neg == b # <<>> /\ Head(b) = 45
        r   == JsonDigits(IF neg THEN Tail(b) ELSE b, <<>>)
    IN  IF r.digits = <<>> \/ (Len(r.digits) > 1 /\ r.digits[1] = 48) THEN JsonFail
        ELSE [ok |-> TRUE,
              val |-> [int |-> IF neg THEN -DigitsVal(r.digits, 0)
                               ELSE DigitsVal(r.digits, 0)],
              rest |-> r.rest]

RECURSIVE JsonValue(_)
RECURSIVE JsonArray(_, _)
\* the elements of an array after "[" or after a ","
JsonArray(b, acc) ==
    LET s == LStrip(b) IN
    IF s = <<>> THEN JsonFail
    ELSE IF s[1] = 93 /\ acc = <<>>
         THEN [ok |-> TRUE, val |-> [list |-> <<>>], rest |-> Tail(s)]
    ELSE LET e == JsonValue(s)
             t == LStrip(e.rest)
         IN  IF ~e.ok \/ t = <<>> THEN JsonFail
             ELSE IF t[1] = 93
                  THEN [ok |-> TRUE, val |-> [list |-> Append(acc, e.val)],
                        rest |-> Tail(t)]
             ELSE IF t[1] = 44 /\ LStrip(Tail(t)) # <<>> /\ LStrip(Tail(t))[1] # 93
                  THEN JsonArray(Tail(t), Append(acc, e.val))
             ELSE JsonFail

JsonValue(b) ==
    LET s == LStrip(b) IN
    IF s = <<>> THEN JsonFail
    ELSE IF s[1] = 91 THEN JsonArray(Tail(s), <<>>)
    ELSE IF s[1] = 34 THEN JsonString(Tail(s), <<>>)
    ELSE IF s[1] = 45 \/ IsDigit(s[1]) THEN JsonNumber(s)
    ELSE JsonFail

\* json.loads(text): [ok, val]; ok = FALSE for JSONDecodeError (a ValueError).
\* Arrays, strings without escapes and integers are covered.
JsonLoads(b) ==
    LET r == JsonValue(b) IN
    IF r.ok /\ LStrip(r.rest) = <<>> THEN [ok |-> TRUE, val |-> r.val]
    ELSE [ok |-> FALSE, val |-> [int |-> 0]]

----------------------------------------------------------------------------
(* The campaign: schema and run table of the coordinator *)

\* status bits of internal["FLAGS"]
ASSIGNED == 2
TERMINATED == 4
COMPLETED == 8

\* x | bit, for a single-bit mask
BitOr(x, bit) == IF (x \div bit) % 2 = 1 THEN x ELSE x + bit
HasBit(x, bit) == (x \div bit) % 2 = 1

\* bytes of one np.uint (unsigned long)
UintSize == 8

Runs == 0..(Size - 1)

\* input_vars: [(name, dtype)], output_vars: [(name, dtype, shape)]
input_vars == PyList(<<PyTuple(<<PyStr(<<"u">>), PyStr(<<"u", "i", "n", "t", "8">>)>>)>>)
output_vars ==
    PyList(<<PyTuple(<<PyStr(<<"f">>), PyStr(<<"u", "i", "n", "t", "1", "6">>),
                       PyTuple(<<>>)>>)>>)

\* bytes of a numpy scalar type given by name, 0 when the name is no type
TypeSize(name) ==
    IF name = Bytes(<<"u", "i", "n", "t", "8">>) THEN 1
    ELSE IF name = Bytes(<<"u", "i", "n", "t", "1", "6">>) THEN 2
    ELSE IF name = Bytes(<<"u", "i", "n", "t", "6", "4">>) THEN 8
    ELSE 0

RECURSIVE ShapeCount(_)
\* number of elements of an array of the given shape, 0 when it is no shape
ShapeCount(shape) ==
    IF shape = <<>> THEN 1
    ELSE IF IsInt(Head(shape)) /\ Head(shape).int >= 0
         THEN Head(shape).int * ShapeCount(Tail(shape))
    ELSE 0

\* itemsize of np.dtype(descr) for a one-field description [(name, type)] or
\* [(name, type, shape)], 0 when numpy does not understand the description
ItemSize(descr) ==
    IF /\ IsList(descr)
       /\ Len(descr.list) = 1
       /\ IsTuple(descr.list[1])
       /\ Len(descr.list[1].tuple) \in {2, 3}
       /\ IsStr(descr.list[1].tuple[1])
       /\ IsStr(descr.list[1].tuple[2])
       /\ (Len(descr.list[1].tuple) = 3 => IsTuple(descr.list[1].tuple[3]))
    THEN TypeSize(descr.list[1].tuple[2].str)
         * (IF Len(descr.list[1].tuple) = 3
            THEN ShapeCount(descr.list[1].tuple[3].tuple) ELSE 1)
    ELSE 0

\* json.dumps(self.input_vars).encode(), json.dumps(self.output_vars).encode()
input_descr == JsonDumps(input_vars)
output_descr == JsonDumps(output_vars)

\* itemsize of the input and of the output records
InputSize == ItemSize(input_vars)
OutputSize == ItemSize(output_vars)

\* the input record of run i, as the sampling step left it
SampleInput(i) == i + 1

\* the run table at campaign start: np.zeros(size, dtype)
NewInternal == [i \in Runs |-> [DONE |-> FALSE, TIME |-> 0, FLAGS |-> 0]]
NewOutput == [i \in Runs |-> 0]
NewInput == [i \in Runs |-> SampleInput(i)]

----------------------------------------------------------------------------
(* Frames and messages *)

READY == Bytes(<<"R", "E", "A", "D", "Y">>)
DATA == Bytes(<<"D", "A", "T", "A">>)
TIME == Bytes(<<"T", "I", "M", "E">>)
DIE == Bytes(<<"D", "I", "E">>)
ACK == Bytes(<<"A", "C", "K">>)
PING == Bytes(<<"P", "I", "N", "G">>)
Empty == <<>>

REQ_ == Bytes(<<"r", "e", "q", "_">>)

\* identity of the worker of run n: f"req_{run_id}".encode()
Identity(n) == REQ_ \o Str(n)

\* b[:n] and b[n:]
Take(b, n) == SubSeq(b, 1, IF n < Len(b) THEN n ELSE Len(b))
Drop(b, n) == SubSeq(b, n + 1, Len(b))

\* identities peers of the ROUTER socket may carry
Addresses ==
    { Identity(n) : n \in (-(Size + 1))..Size }
    \cup { Bytes(<<"r", "e", "q", "_">>),
           Bytes(<<"r", "e", "q", "_", "x">>),
           Bytes(<<"r", "e", "q", "_", "+", "0">>),
           Bytes(<<"r", "e", "q", "_", " ", "0", "1">>),
           Bytes(<<"r", "e", "p", "_", "0">>),
           Bytes(<<"r", "e", "q">>) }

\* what follows identity and delimiter in a received message (msg[2:])
Payloads ==
    { <<>>, <<READY>>, <<DIE>>, <<PING>>, <<DATA>>, <<TIME>> }
    \cup { <<DATA, ToBytes(v, OutputSize)>> : v \in 1..MaxVal }
    \cup { <<TIME, ToBytes(v, UintSize)>> : v \in 1..MaxVal }
    \cup { <<DATA, <<1>>>>, <<TIME, <<1>>>> }

\* multipart messages recv_multipart() may return on the ROUTER socket
Messages == { <<a, Empty>> \o p : a \in Addresses, p \in Payloads }

\* the messages workers of the campaign send: READY, DATA with an output record,
\* TIME with an unsigned integer, from the identity of a run
RunMessages ==
    { <<Identity(i), Empty>> \o p :
        i \in Runs,
        p \in { <<READY>> }
              \cup { <<DATA, ToBytes(v, OutputSize)>> : v \in 1..MaxVal }
              \cup { <<TIME, ToBytes(v, UintSize)>> : v \in 1..MaxVal } }

----------------------------------------------------------------------------
(* State *)

VARIABLES
    input,      \* coordinator: self.input, one record per run
    output,     \* coordinator: self.output, one record per run
    internal,   \* coordinator: self.internal, DONE / TIME / FLAGS per run
    msg,        \* coordinator: the message poll() received last
    sent,       \* coordinator: messages handle_msg() gave to send_multipart()
                \*   while handling msg
    cpc,        \* coordinator: "idle" (outside poll), "poll", "failed"
    cexc,       \* coordinator: the exception poll() raised, or "none"
    handled,    \* coordinator: number of messages received so far
    writes,     \* history: how often output[i] / TIME[i] were assigned
    retries,    \* worker: self.retries
    conn,       \* worker: connected = self._connected, socket = self.socket (the
                \*   number of the socket object, 0 before the first connect()),
                \*   open = the sockets created and not closed
    call,       \* worker: the method its caller invoked: "none", "request",
                \*   "retrieve", "transmit"
    wpc,        \* worker: "idle", "send" (top of the loop), "poll" (waiting for
                \*   the reply), "raised"
    wexc,       \* worker: the exception the call raised, or "none"
    request,    \* worker: the argument of request()
    tries,      \* worker: the local counter of request()
    wmsg,       \* worker: the message request() sent last
    response,   \* worker: the reply request() received last
    winput,     \* worker: self.input (bytes of the record, <<>> before READY)
    woutput,    \* worker: self.output (bytes of the record, <<>> before READY)
    wtime,      \* worker: self.time
    nsent,      \* history: messages sent by the current request(), counted up to
                \*   MaxRetries + MaxMalformed + 1
    malformed,  \* history: malformed replies received by the current request(),
                \*   counted up to MaxMalformed
    calls,      \* history: calls made on the worker
    net,        \* network: requests of the worker queued at the coordinator's
                \*   socket, oldest first
    back,       \* network: replies of the coordinator under way to the worker
    (* the component registry *)
    klass,      \* the classes defined: parent class, __name__, and the class
                \*   attributes `component` and `_components` (which dict it is)
    registries, \* the dicts that are `_components` of some class: label -> class
    latest      \* history: for each component base, the class registered last
                \*   under each label

cvars == <<input, output, internal, msg, sent, cpc, cexc, handled, writes>>
wvars == <<retries, conn, call, wpc, wexc, request, tries, wmsg, response,
           winput, woutput, wtime, nsent, malformed, calls>>
nvars == <<net, back>>
kvars == <<klass, registries, latest>>
vars == <<input, output, internal, msg, sent, cpc, cexc, handled, writes,
          retries, conn, call, wpc, wexc, request, tries, wmsg, response,
          winput, woutput, wtime, nsent, malformed, calls, net, back,
          klass, registries, latest>>

----------------------------------------------------------------------------
(* ZeroMQRunnerInterface.handle_msg *)

Result(inp, outp, intl, snt, e, w) ==
    [input |-> inp, output |-> outp, internal |-> intl, sent |-> snt, exc |-> e,
     writes |-> w]

\* the call returns without touching table or socket
NoEffect == Result(input, output, internal, <<>>, "none", writes)
\* the call raises before it touched table or socket
Raise(e) == Result(input, output, internal, <<>>, e, writes)

\* [address, b"", input_descr, self.input[run_id], output_descr]
ReadyReply(address, idx) ==
    <<address, Empty, input_descr, ToBytes(input[idx], InputSize), output_descr>>

\* variant: the reply lacks the empty delimiter frame
AckReply_NoDelimiter(address) == <<address, ACK>>

\* [address, b"", b"ACK"]
AckReply(address) == <<address, Empty, ACK>>

\* variant: the status is overwritten, not ORed
handle_READY_Overwrite(address, run_id) ==
    LET idx == PyIndex(Size, run_id) IN
    IF idx = -1 THEN Raise("IndexError")
    ELSE Result(input, output,
                [internal EXCEPT ![idx].FLAGS = ASSIGNED],
                <<ReadyReply(address, idx)>>, "none", writes)

\* variant: the bit is set in the whole FLAGS column
handle_READY_All(address, run_id) ==
    LET idx == PyIndex(Size, run_id) IN
    IF idx = -1 THEN Raise("IndexError")
    ELSE Result(input, output,
                [i \in Runs |-> [internal[i] EXCEPT !.FLAGS = BitOr(@, ASSIGNED)]],
                <<ReadyReply(address, idx)>>, "none", writes)

\* variant: the reply is sent but the run is not marked
handle_READY_NoAssign(address, run_id) ==
    LET idx == PyIndex(Size, run_id) IN
    IF idx = -1 THEN Raise("IndexError")
    ELSE Result(input, output, internal, <<ReadyReply(address, idx)>>, "none", writes)

\* msg[0] == b"READY"
handle_READY(address, run_id) ==
    LET idx == PyIndex(Size, run_id) IN
    IF idx = -1 THEN Raise("IndexError")
    ELSE Result(input, output,
                [internal EXCEPT ![idx].FLAGS = BitOr(@, ASSIGNED)],
                <<ReadyReply(address, idx)>>, "none", writes)

\* variant: a run that is done keeps its first output
handle_DATA_FirstWins(address, run_id, m) ==
    LET idx == PyIndex(Size, run_id)
        buf == FromBuffer(m[2], OutputSize)
    IN  IF Len(m) < 2 THEN Raise("IndexError")
        ELSE IF ~buf.ok THEN Raise("ValueError")
        ELSE IF idx = -1 THEN Raise("IndexError")
        ELSE IF Len(buf.arr) # 1 THEN Raise("ValueError")
        ELSE Result(input,
                    IF internal[idx].DONE THEN output
                    ELSE [output EXCEPT ![idx] = buf.arr[1]],
                    [internal EXCEPT ![idx].DONE = TRUE,
                                     ![idx].FLAGS = BitOr(@, COMPLETED)],
                    <<AckReply(address)>>, "none",
                    [writes EXCEPT ![idx].output = @ + 1])

\* variant: the status bit is set but the run is not marked done
handle_DATA_NoDone(address, run_id, m) ==
    LET idx == PyIndex(Size, run_id)
        buf == FromBuffer(m[2], OutputSize)
    IN  IF Len(m) < 2 THEN Raise("IndexError")
        ELSE IF ~buf.ok THEN Raise("ValueError")
        ELSE IF idx = -1 THEN Raise("IndexError")
        ELSE IF Len(buf.arr) # 1 THEN Raise("ValueError")
        ELSE Result(input,
                    [output EXCEPT ![idx] = buf.arr[1]],
                    [internal EXCEPT ![idx].FLAGS = BitOr(@, COMPLETED)],
                    <<AckReply(address)>>, "none",
                    [writes EXCEPT ![idx].output = @ + 1])

\* variant: the payload of DATA lands in the input record
handle_DATA_IntoInput(address, run_id, m) ==
    LET idx == PyIndex(Size, run_id)
        buf == FromBuffer(m[2], OutputSize)
    IN  IF Len(m) < 2 THEN Raise("IndexError")
        ELSE IF ~buf.ok THEN Raise("ValueError")
        ELSE IF idx = -1 THEN Raise("IndexError")
        ELSE IF Len(buf.arr) # 1 THEN Raise("ValueError")
        ELSE Result([input EXCEPT ![idx] = buf.arr[1]],
                    output,
                    [internal EXCEPT ![idx].DONE = TRUE,
                                     ![idx].FLAGS = BitOr(@, COMPLETED)],
                    <<AckReply(address)>>, "none",
                    [writes EXCEPT ![idx].output = @ + 1])

\* msg[0] == b"DATA"
handle_DATA(address, run_id, m) ==
    LET idx == PyIndex(Size, run_id)
        buf == FromBuffer(m[2], OutputSize)
    IN  IF Len(m) < 2 THEN Raise("IndexError")
        ELSE IF ~buf.ok THEN Raise("ValueError")
        ELSE IF idx = -1 THEN Raise("IndexError")
        ELSE IF Len(buf.arr) # 1 THEN Raise("ValueError")
        ELSE Result(input,
                    [output EXCEPT ![idx] = buf.arr[1]],
                    [internal EXCEPT ![idx].DONE = TRUE,
                                     ![idx].FLAGS = BitOr(@, COMPLETED)],
                    <<AckReply(address)>>, "none",
                    [writes EXCEPT ![idx].output = @ + 1])

\* variant: the elapsed time is added to what is stored
handle_TIME_Accumulate(address, run_id, m) ==
    LET idx == PyIndex(Size, run_id)
        buf == FromBuffer(m[2], UintSize)
    IN  IF Len(m) < 2 THEN Raise("IndexError")
        ELSE IF ~buf.ok THEN Raise("ValueError")
        ELSE IF idx = -1 THEN Raise("IndexError")
        ELSE IF Len(buf.arr) # 1 THEN Raise("ValueError")
        ELSE Result(input, output,
                    [internal EXCEPT ![idx].TIME = @ + buf.arr[1]],
                    <<AckReply(address)>>, "none",
                    [writes EXCEPT ![idx].TIME = @ + 1])

\* variant: a run that reports its time is marked not done
handle_TIME_Resets(address, run_id, m) ==
    LET idx == PyIndex(Size, run_id)
        buf == FromBuffer(m[2], UintSize)
    IN  IF Len(m) < 2 THEN Raise("IndexError")
        ELSE IF ~buf.ok THEN Raise("ValueError")
        ELSE IF idx = -1 THEN Raise("IndexError")
        ELSE IF Len(buf.arr) # 1 THEN Raise("ValueError")
        ELSE Result(input, output,
                    [internal EXCEPT ![idx].TIME = buf.arr[1], ![idx].DONE = FALSE],
                    <<AckReply(address)>>, "none",
                    [writes EXCEPT ![idx].TIME = @ + 1])

\* variant: a run that reports its time is marked completed
handle_TIME_Completes(address, run_id, m) ==
    LET idx == PyIndex(Size, run_id)
        buf == FromBuffer(m[2], UintSize)
    IN  IF Len(m) < 2 THEN Raise("IndexError")
        ELSE IF ~buf.ok THEN Raise("ValueError")
        ELSE IF idx = -1 THEN Raise("IndexError")
        ELSE IF Len(buf.arr) # 1 THEN Raise("ValueError")
        ELSE Result(input, output,
                    [internal EXCEPT ![idx].TIME = buf.arr[1],
                                     ![idx].FLAGS = BitOr(@, COMPLETED)],
                    <<AckReply(address)>>, "none",
                    [writes EXCEPT ![idx].TIME = @ + 1])

\* msg[0] == b"TIME"
handle_TIME(address, run_id, m) ==
    LET idx == PyIndex(Size, run_id)
        buf == FromBuffer(m[2], UintSize)
    IN  IF Len(m) < 2 THEN Raise("IndexError")
        ELSE IF ~buf.ok THEN Raise("ValueError")
        ELSE IF idx = -1 THEN Raise("IndexError")
        ELSE IF Len(buf.arr) # 1 THEN Raise("ValueError")
        ELSE Result(input, output,
                    [internal EXCEPT ![idx].TIME = buf.arr[1]],
                    <<AckReply(address)>>, "none",
                    [writes EXCEPT ![idx].TIME = @ + 1])

\* variant: the bit is set in the whole FLAGS column
handle_DIE_All(address, run_id) ==
    LET idx == PyIndex(Size, run_id) IN
    IF idx = -1 THEN Raise("IndexError")
    ELSE Result(input, output,
                [i \in Runs |-> [internal[i] EXCEPT !.FLAGS = BitOr(@, TERMINATED)]],
                <<AckReply(address)>>, "none", writes)

\* variant: the status is overwritten, not ORed
handle_DIE_Overwrite(address, run_id) ==
    LET idx == PyIndex(Size, run_id) IN
    IF idx = -1 THEN Raise("IndexError")
    ELSE Result(input, output,
                [internal EXCEPT ![idx].FLAGS = TERMINATED],
                <<AckReply(address)>>, "none", writes)

\* msg[0] == b"DIE"
handle_DIE(address, run_id) ==
    LET idx == PyIndex(Size, run_id) IN
    IF idx = -1 THEN Raise("IndexError")
    ELSE Result(input, output,
                [internal EXCEPT ![idx].FLAGS = BitOr(@, TERMINATED)],
                <<AckReply(address)>>, "none", writes)

\* variant: the prefix of the address is not looked at
HasPrefix_Any(address) == TRUE

\* address[:4] == b"req_"
HasPrefix(address) == Take(address, 4) = REQ_

\* int(address[4:]) of every identity a peer may carry
RunIds == [a \in Addresses |-> PyInt(Drop(a, 4))]

\* int(address[4:])
ParseRunId(address) == RunIds[address]

\* variant: an unknown verb is acknowledged
handle_msg_AckUnknown(address, m) ==
    IF HasPrefix(address)
    THEN LET id == ParseRunId(address) IN
         IF ~id.ok THEN Raise("ValueError")
         ELSE IF m = <<>> THEN Raise("IndexError")
         ELSE IF m[1] = READY THEN handle_READY(address, id.val)
         ELSE IF m[1] = DATA THEN handle_DATA(address, id.val, m)
         ELSE IF m[1] = TIME THEN handle_TIME(address, id.val, m)
         ELSE IF m[1] = DIE THEN handle_DIE(address, id.val)
         ELSE Result(input, output, internal, <<AckReply(address)>>, "none", writes)
    ELSE NoEffect

\* handle_msg(address, m): the table, the messages sent and the exception raised
handle_msg(address, m) ==
    IF HasPrefix(address)
    THEN LET id == ParseRunId(address) IN
         IF ~id.ok THEN Raise("ValueError")
         ELSE IF m = <<>> THEN Raise("IndexError")
         ELSE IF m[1] = READY THEN handle_READY(address, id.val)
         ELSE IF m[1] = DATA THEN handle_DATA(address, id.val, m)
         ELSE IF m[1] = TIME THEN handle_TIME(address, id.val, m)
         ELSE IF m[1] = DIE THEN handle_DIE(address, id.val)
         ELSE NoEffect
    ELSE NoEffect

----------------------------------------------------------------------------
(* ZeroMQRunnerInterface.poll *)

\* the caller enters poll()
PollCall ==
    /\ cpc = "idle"
    /\ cpc' = "poll"
    /\ UNCHANGED <<input, output, internal, msg, sent, cexc, handled, writes>>
    /\ UNCHANGED <<wvars, nvars, kvars>>

\* recv_multipart() returned m: handle_msg(msg[0], msg[2:])
Received(m) ==
    /\ cpc = "poll"
    /\ \E r \in {handle_msg(m[1], Drop(m, 2))} :
        /\ msg' = m
        /\ input' = r.input
        /\ output' = r.output
        /\ internal' = r.internal
        /\ sent' = r.sent
        /\ writes' = r.writes
        /\ cexc' = r.exc
        /\ cpc' = IF r.exc = "none" THEN "poll" ELSE "failed"
    /\ handled' = handled + 1
    /\ UNCHANGED <<wvars, kvars>>

\* socket.poll() reports a message, any message a peer can send
PollRecv(m) ==
    /\ handled < MaxHandled
    /\ Received(m)
    /\ UNCHANGED nvars

\* variant: poll() returns although a message is queued
PollReturn_Early ==
    /\ cpc = "poll"
    /\ cpc' = "idle"
    /\ UNCHANGED <<input, output, internal, msg, sent, cexc, handled, writes>>
    /\ UNCHANGED <<wvars, nvars, kvars>>

\* socket.poll() times out with no message: poll() returns
PollReturn ==
    /\ cpc = "poll"
    /\ net = <<>>
    /\ cpc' = "idle"
    /\ UNCHANGED <<input, output, internal, msg, sent, cexc, handled, writes>>
    /\ UNCHANGED <<wvars, nvars, kvars>>

\* socket.poll() reports a message of a worker of the campaign
PollRecvRun(m) ==
    /\ handled < MaxSession
    /\ Received(m)
    /\ UNCHANGED nvars

InitCoord ==
    /\ input = NewInput
    /\ output = NewOutput
    /\ internal = NewInternal
    /\ msg = <<>>
    /\ sent = <<>>
    /\ cpc = "idle"
    /\ cexc = "none"
    /\ handled = 0
    /\ writes = [i \in Runs |-> [output |-> 0, TIME |-> 0]]

NextCoord ==
    \/ PollCall
    \/ \E m \in Messages : PollRecv(m)
    \/ PollReturn

NextRuns ==
    \/ PollCall
    \/ \E m \in RunMessages : PollRecvRun(m)
    \/ PollReturn

----------------------------------------------------------------------------
(* ZeroMQWorkerInterface: connection *)

\* the number of a new socket object: the least one that no open socket and
\* not self.socket bears
NewSocket(c) ==
    CHOOSE n \in 1..(Cardinality(c.open) + 2) :
        /\ n \notin c.open \cup {c.socket}
        /\ \A k \in 1..(n - 1) : k \in c.open \cup {c.socket}

\* connect(): a new REQ socket with identity req_<run_id>, connected
connect(c) ==
    [connected |-> TRUE, socket |-> NewSocket(c), open |-> c.open \cup {NewSocket(c)}]

\* variant: the socket is closed but the flag is left as it is
disconnect_KeepsFlag(c) ==
    [c EXCEPT !.open = @ \ {c.socket}]

\* disconnect(): self.socket.close(linger=0)
disconnect(c) ==
    [c EXCEPT !.connected = FALSE, !.open = @ \ {c.socket}]

----------------------------------------------------------------------------
(* ZeroMQWorkerInterface.request: the reply to READY *)

\* iter(v): [ok, items]; ok = FALSE for TypeError (an int is not iterable)
PyIter(v) ==
    IF IsList(v) THEN [ok |-> TRUE, items |-> v.list]
    ELSE IF IsTuple(v) THEN [ok |-> TRUE, items |-> v.tuple]
    ELSE IF IsStr(v)
         THEN [ok |-> TRUE, items |-> [k \in 1..Len(v.str) |-> [str |-> <<v.str[k]>>]]]
    ELSE [ok |-> FALSE, items |-> <<>>]

ColumnFail(e) == [exc |-> e, val |-> PyTuple(<<>>)]

\* tuple(column)
InColumn(c) ==
    IF PyIter(c).ok THEN [exc |-> "none", val |-> PyTuple(PyIter(c).items)]
    ELSE ColumnFail("TypeError")

\* tuple(column[:2] + [tuple(column[2])])
OutColumn(c) ==
    IF IsList(c)
    THEN IF Len(c.list) < 3 THEN ColumnFail("IndexError")
         ELSE IF ~PyIter(c.list[3]).ok THEN ColumnFail("TypeError")
         ELSE [exc |-> "none",
               val |-> PyTuple(<<c.list[1], c.list[2],
                                 PyTuple(PyIter(c.list[3]).items)>>)]
    ELSE IF IsStr(c) /\ Len(c.str) < 3 THEN ColumnFail("IndexError")
    ELSE ColumnFail("TypeError")

RECURSIVE Columns(_, _, _)
\* the list comprehension over the columns; the first exception ends it
Columns(cols, out, acc) ==
    IF cols = <<>> THEN [exc |-> "none", val |-> PyList(acc)]
    ELSE LET r == IF out THEN OutColumn(Head(cols)) ELSE InColumn(Head(cols)) IN
         IF r.exc # "none" THEN [exc |-> r.exc, val |-> PyList(<<>>)]
         ELSE Columns(Tail(cols), out, Append(acc, r.val))

\* [... for column in json.loads(descr.decode())]
Descr(text, out) ==
    IF (\E k \in 1..Len(text) : text[k] > 127) \/ ~JsonLoads(text).ok
    THEN [exc |-> "ValueError", val |-> PyList(<<>>)]
    ELSE IF ~PyIter(JsonLoads(text).val).ok
         THEN [exc |-> "TypeError", val |-> PyList(<<>>)]
    ELSE Columns(PyIter(JsonLoads(text).val).items, out, <<>>)

ReadyFail(e) == [exc |-> e, input |-> <<>>, output |-> <<>>]

\* variant: the output record is allocated but not zeroed
DecodeReady_Empty(r) ==
    IF Len(r) # 3 THEN ReadyFail("ValueError")
    ELSE LET i == Descr(r[1], FALSE) IN
         IF i.exc # "none" THEN ReadyFail(i.exc)
         ELSE LET o == Descr(r[3], TRUE) IN
              IF o.exc # "none" THEN ReadyFail(o.exc)
              ELSE IF ItemSize(i.val) = 0 THEN ReadyFail("TypeError")
              ELSE IF Len(r[2]) % ItemSize(i.val) # 0 THEN ReadyFail("ValueError")
              ELSE IF r[2] = <<>> THEN ReadyFail("IndexError")
              ELSE IF ItemSize(o.val) = 0
                   THEN [exc |-> "TypeError",
                         input |-> SubSeq(r[2], 1, ItemSize(i.val)), output |-> <<>>]
              ELSE [exc |-> "none",
                    input |-> SubSeq(r[2], 1, ItemSize(i.val)),
                    output |-> [k \in 1..ItemSize(o.val) |-> 255]]

\* lines 255-264: unpack the three frames, decode both schemas, take the first
\* input record, allocate a zeroed output record; the exception it ends with
DecodeReady(r) ==
    IF Len(r) # 3 THEN ReadyFail("ValueError")
    ELSE LET i == Descr(r[1], FALSE) IN
         IF i.exc # "none" THEN ReadyFail(i.exc)
         ELSE LET o == Descr(r[3], TRUE) IN
              IF o.exc # "none" THEN ReadyFail(o.exc)
              ELSE IF ItemSize(i.val) = 0 THEN ReadyFail("TypeError")
              ELSE IF Len(r[2]) % ItemSize(i.val) # 0 THEN ReadyFail("ValueError")
              ELSE IF r[2] = <<>> THEN ReadyFail("IndexError")
              ELSE IF ItemSize(o.val) = 0
                   THEN [exc |-> "TypeError",
                         input |-> SubSeq(r[2], 1, ItemSize(i.val)), output |-> <<>>]
              ELSE [exc |-> "none",
                    input |-> SubSeq(r[2], 1, ItemSize(i.val)),
                    output |-> [k \in 1..ItemSize(o.val) |-> 0]]

----------------------------------------------------------------------------
(* ZeroMQWorkerInterface.request *)

\* self.run_id: the worker of the last run
run_id == Size - 1

\* request.encode()
VerbBytes(v) ==
    CASE v = "READY" -> READY
      [] v = "DATA" -> DATA
      [] v = "TIME" -> TIME
      [] v = "DIE" -> DIE
      [] OTHER -> PING

\* request in ["READY", "DATA", "TIME"]
Whitelisted(v) == v \in {"READY", "DATA", "TIME"}

\* what a caller may pass to request()
Verbs == {"READY", "DATA", "TIME", "DIE", "PING"}

\* msg = [request.encode()] plus self.output for DATA, np.uint(self.time) for TIME
RequestMsg(v) ==
    IF v = "DATA" THEN <<VerbBytes(v), woutput>>
    ELSE IF v = "TIME" THEN <<VerbBytes(v), ToBytes(wtime, UintSize)>>
    ELSE <<VerbBytes(v)>>

\* variant: the budget is one attempt short
Exhausted_Early(t) == t >= retries

\* tries >= self.retries + 1
Exhausted(t) == t >= retries + 1

\* what recv_multipart() may return on the REQ socket
Replies ==
    { <<ACK>>, <<PING>>, <<ACK, PING>> }
    \cup { <<input_descr, ToBytes(SampleInput(run_id), InputSize), output_descr>> }
    \cup { <<input_descr, <<1>>>>,
           <<Bytes(<<"x">>), <<1>>, output_descr>>,
           <<Bytes(<<"5">>), <<1>>, output_descr>>,
           <<input_descr, <<1>>,
             Bytes(<<"[", "[", "\"", "f", "\"", ",", " ", "\"", "u", "i", "n", "t",
                     "1", "6", "\"", "]", "]">>)>> }

\* DecodeReady, evaluated once for each reply
ReadyOutcome == [r \in Replies |-> DecodeReady(r)]

\* variant: the branch of DATA and TIME lacks its return
TryBlock_NoReturn(v, r) ==
    IF v = "READY"
    THEN IF ReadyOutcome[r].exc = "none" THEN "return"
         ELSE IF ReadyOutcome[r].exc = "ValueError" THEN "retry"
         ELSE ReadyOutcome[r].exc
    ELSE "retry"

\* variant: the AssertionError of a reply that is not ACK is not caught
TryBlock_Uncaught(v, r) ==
    IF v = "READY"
    THEN IF ReadyOutcome[r].exc = "none" THEN "return"
         ELSE IF ReadyOutcome[r].exc = "ValueError" THEN "retry"
         ELSE ReadyOutcome[r].exc
    ELSE IF r[1] = ACK THEN "return" ELSE "AssertionError"

\* how the try block ends for reply r: "return", "retry" (ValueError or
\* AssertionError, caught) or the name of the exception that leaves request()
TryBlock(v, r) ==
    IF v = "READY"
    THEN IF ReadyOutcome[r].exc = "none" THEN "return"
         ELSE IF ReadyOutcome[r].exc = "ValueError" THEN "retry"
         ELSE ReadyOutcome[r].exc
    ELSE IF r[1] = ACK THEN "return" ELSE "retry"

\* the caller invokes request(v)
CallRequest(v) ==
    /\ wpc = "idle"
    /\ calls < MaxCalls
    /\ v \in {"DATA", "TIME"} => woutput # <<>>
    /\ calls' = calls + 1
    /\ call' = "request"
    /\ request' = v
    /\ conn' = IF ~conn.connected THEN connect(conn) ELSE conn
    /\ IF Whitelisted(v)
       THEN wpc' = "send" /\ wexc' = "none"
       ELSE wpc' = "raised" /\ wexc' = "ValueError"
    /\ tries' = 0
    /\ nsent' = 0
    /\ malformed' = 0
    /\ wmsg' = <<>>
    /\ response' = <<>>
    /\ UNCHANGED <<retries, winput, woutput, wtime>>
    /\ UNCHANGED <<cvars, nvars, kvars>>

\* variant: retrieve() asks with TIME
CallRetrieve_Time ==
    /\ wpc = "idle"
    /\ calls < MaxCalls
    /\ calls' = calls + 1
    /\ call' = "retrieve"
    /\ request' = "TIME"
    /\ conn' = connect(conn)
    /\ wpc' = "send"
    /\ tries' = 0
    /\ nsent' = 0
    /\ malformed' = 0
    /\ wmsg' = <<>>
    /\ response' = <<>>
    /\ UNCHANGED <<retries, wexc, winput, woutput, wtime>>
    /\ UNCHANGED <<cvars, nvars, kvars>>

\* the caller invokes retrieve(): connect(), request("READY")
CallRetrieve ==
    /\ wpc = "idle"
    /\ calls < MaxCalls
    /\ calls' = calls + 1
    /\ call' = "retrieve"
    /\ request' = "READY"
    /\ conn' = connect(conn)
    /\ wpc' = "send"
    /\ tries' = 0
    /\ nsent' = 0
    /\ malformed' = 0
    /\ wmsg' = <<>>
    /\ response' = <<>>
    /\ UNCHANGED <<retries, wexc, winput, woutput, wtime>>
    /\ UNCHANGED <<cvars, nvars, kvars>>

\* the caller invokes transmit(): connect(), request("TIME")
CallTransmit ==
    /\ wpc = "idle"
    /\ calls < MaxCalls
    /\ woutput # <<>>
    /\ calls' = calls + 1
    /\ call' = "transmit"
    /\ request' = "TIME"
    /\ conn' = connect(conn)
    /\ wpc' = "send"
    /\ tries' = 0
    /\ nsent' = 0
    /\ malformed' = 0
    /\ wmsg' = <<>>
    /\ response' = <<>>
    /\ UNCHANGED <<retries, wexc, winput, woutput, wtime>>
    /\ UNCHANGED <<cvars, nvars, kvars>>

\* the simulation fills self.output and self.time (between retrieve and transmit)
Compute(v, t) ==
    /\ wpc = "idle"
    /\ woutput # <<>>
    /\ wtime = 0
    /\ woutput' = ToBytes(v, Len(woutput))
    /\ wtime' = t
    /\ UNCHANGED <<retries, conn, call, wpc, wexc, request, tries, wmsg, response,
                   winput, nsent, malformed, calls>>
    /\ UNCHANGED <<cvars, nvars, kvars>>

\* top of the loop: msg is built and given to socket.send_multipart()
Sending ==
    /\ wpc = "send"
    /\ wmsg' = RequestMsg(request)
    /\ nsent' = IF nsent <= MaxRetries + MaxMalformed THEN nsent + 1 ELSE nsent
    /\ wpc' = "poll"
    /\ UNCHANGED <<retries, conn, call, wexc, request, tries, response,
                   winput, woutput, wtime, malformed, calls>>
    /\ UNCHANGED <<cvars, kvars>>

\* the message is sent, to whatever peer there is
Send ==
    /\ Sending
    /\ UNCHANGED nvars

\* variant: a timeout is not counted
Timeout_NoCount ==
    /\ wpc = "poll"
    /\ conn' = connect(disconnect(conn))
    /\ wpc' = "send"
    /\ UNCHANGED <<retries, call, wexc, request, tries, wmsg, response, winput,
                   woutput, wtime, nsent, malformed, calls>>
    /\ UNCHANGED <<cvars, nvars, kvars>>

\* variant: a worker that gives up tells the coordinator with DIE
Timeout_ReportsDie ==
    /\ wpc = "poll"
    /\ tries' = tries + 1
    /\ IF Exhausted(tries + 1)
       THEN /\ conn' = disconnect(conn)
            /\ wpc' = "raised"
            /\ wexc' = "ConnectionError"
            /\ net' = Append(net, <<DIE>>)
       ELSE /\ conn' = connect(disconnect(conn))
            /\ wpc' = "send"
            /\ wexc' = wexc
            /\ net' = net
    /\ back' = back
    /\ UNCHANGED <<retries, call, request, wmsg, response, winput, woutput, wtime,
                   nsent, malformed, calls>>
    /\ UNCHANGED <<cvars, kvars>>

\* variant: the request is sent again on the socket that timed out
Timeout_NoReopen ==
    /\ wpc = "poll"
    /\ tries' = tries + 1
    /\ IF Exhausted(tries + 1)
       THEN /\ conn' = disconnect(conn)
            /\ wpc' = "raised"
            /\ wexc' = "ConnectionError"
       ELSE /\ conn' = conn
            /\ wpc' = "send"
            /\ wexc' = wexc
    /\ UNCHANGED <<retries, call, request, wmsg, response, winput, woutput, wtime,
                   nsent, malformed, calls>>
    /\ UNCHANGED <<cvars, nvars, kvars>>

\* variant: the socket that timed out is left open
Timeout_NoClose ==
    /\ wpc = "poll"
    /\ tries' = tries + 1
    /\ IF Exhausted(tries + 1)
       THEN /\ conn' = disconnect(conn)
            /\ wpc' = "raised"
            /\ wexc' = "ConnectionError"
       ELSE /\ conn' = connect(conn)
            /\ wpc' = "send"
            /\ wexc' = wexc
    /\ UNCHANGED <<retries, call, request, wmsg, response, winput, woutput, wtime,
                   nsent, malformed, calls>>
    /\ UNCHANGED <<cvars, nvars, kvars>>

\* socket.poll() times out: tries += 1, sleep, then the end of the loop body
Timeout ==
    /\ wpc = "poll"
    /\ tries' = tries + 1
    /\ IF Exhausted(tries + 1)
       THEN /\ conn' = disconnect(conn)
            /\ wpc' = "raised"
            /\ wexc' = "ConnectionError"
       ELSE /\ conn' = connect(disconnect(conn))
            /\ wpc' = "send"
            /\ wexc' = wexc
    /\ UNCHANGED <<retries, call, request, wmsg, response, winput, woutput, wtime,
                   nsent, malformed, calls>>
    /\ UNCHANGED <<cvars, nvars, kvars>>

\* request() returns to retrieve() / transmit() or to the caller
Return ==
    /\ IF call = "transmit" /\ request = "TIME"
       THEN /\ request' = "DATA"
            /\ wpc' = "send"
            /\ tries' = 0
            /\ nsent' = 0
            /\ malformed' = 0
            /\ UNCHANGED <<conn, call>>
       ELSE /\ conn' = IF call = "request" THEN conn ELSE disconnect(conn)
            /\ call' = "none"
            /\ wpc' = "idle"
            /\ UNCHANGED <<request, tries, nsent, malformed>>
    /\ wexc' = wexc

\* variant: a reply ends the run of timeouts, tries counts consecutive ones
Replied_Consecutive(r) ==
    /\ wpc = "poll"
    /\ response' = r
    /\ LET end == TryBlock(request, r) IN
       IF end = "return"
       THEN /\ Return
            /\ IF request = "READY"
               THEN /\ winput' = ReadyOutcome[r].input
                    /\ woutput' = ReadyOutcome[r].output
               ELSE UNCHANGED <<winput, woutput>>
       ELSE IF end = "retry"
       THEN /\ malformed' = IF malformed < MaxMalformed THEN malformed + 1
                             ELSE malformed
            /\ IF Exhausted(tries)
               THEN /\ conn' = disconnect(conn)
                    /\ wpc' = "raised"
                    /\ wexc' = "ConnectionError"
               ELSE /\ conn' = connect(disconnect(conn))
                    /\ wpc' = "send"
                    /\ wexc' = wexc
            /\ tries' = 0
            /\ UNCHANGED <<call, request, nsent, winput, woutput>>
       ELSE /\ wpc' = "raised"
            /\ wexc' = end
            /\ winput' = IF ReadyOutcome[r].input # <<>> THEN ReadyOutcome[r].input
                          ELSE winput
            /\ UNCHANGED <<conn, call, request, tries, nsent, malformed, woutput>>
    /\ UNCHANGED <<retries, wmsg, wtime, calls>>
    /\ UNCHANGED <<cvars, kvars>>

\* recv_multipart() returned r: the try block and the end of the loop body
Replied(r) ==
    /\ wpc = "poll"
    /\ response' = r
    /\ LET end == TryBlock(request, r) IN
       IF end = "return"
       THEN /\ Return
            /\ IF request = "READY"
               THEN /\ winput' = ReadyOutcome[r].input
                    /\ woutput' = ReadyOutcome[r].output
               ELSE UNCHANGED <<winput, woutput>>
       ELSE IF end = "retry"
       THEN /\ malformed' = IF malformed < MaxMalformed THEN malformed + 1
                             ELSE malformed
            /\ IF Exhausted(tries)
               THEN /\ conn' = disconnect(conn)
                    /\ wpc' = "raised"
                    /\ wexc' = "ConnectionError"
               ELSE /\ conn' = connect(disconnect(conn))
                    /\ wpc' = "send"
                    /\ wexc' = wexc
            /\ UNCHANGED <<call, request, tries, nsent, winput, woutput>>
       ELSE /\ wpc' = "raised"
            /\ wexc' = end
            /\ winput' = IF ReadyOutcome[r].input # <<>> THEN ReadyOutcome[r].input
                          ELSE winput
            /\ UNCHANGED <<conn, call, request, tries, nsent, malformed, woutput>>
    /\ UNCHANGED <<retries, wmsg, wtime, calls>>
    /\ UNCHANGED <<cvars, kvars>>

\* socket.poll() reports a reply, any reply a peer can send
Recv(r) ==
    /\ Replied(r)
    /\ UNCHANGED nvars

\* the caller invokes clean(): if self._connected: self.disconnect()
Clean ==
    /\ wpc \in {"idle", "raised"}
    /\ conn' = IF conn.connected THEN disconnect(conn) ELSE conn
    /\ UNCHANGED <<retries, call, wpc, wexc, request, tries, wmsg, response, winput,
                   woutput, wtime, nsent, malformed, calls>>
    /\ UNCHANGED <<cvars, nvars, kvars>>

InitNet ==
    /\ net = <<>>
    /\ back = <<>>

InitWorker ==
    /\ retries \in 0..MaxRetries
    /\ conn = [connected |-> FALSE, socket |-> 0, open |-> {}]
    /\ call = "none"
    /\ wpc = "idle"
    /\ wexc = "none"
    /\ request = "READY"
    /\ tries = 0
    /\ wmsg = <<>>
    /\ response = <<>>
    /\ winput = <<>>
    /\ woutput = <<>>
    /\ wtime = 0
    /\ nsent = 0
    /\ malformed = 0
    /\ calls = 0

NextWorker ==
    \/ \E v \in Verbs : CallRequest(v)
    \/ CallRetrieve
    \/ CallTransmit
    \/ \E v \in 1..MaxVal : \E t \in 1..MaxVal : Compute(v, t)
    \/ Send
    \/ Timeout
    \/ \E r \in Replies : Recv(r)

----------------------------------------------------------------------------
(* Coordinator and worker together: the worker of run run_id talks to the
   ROUTER socket of the coordinator.  Requests and replies arrive in the order
   they were sent; a reply that arrives after the worker has reconnected reaches
   its new socket, which bears the same identity. *)

\* the worker's message joins the queue of the coordinator's socket
SendNet ==
    /\ Sending
    /\ net' = Append(net, wmsg')
    /\ back' = back

\* poll() of the coordinator receives the oldest request queued, framed by the
\* ROUTER socket with the identity of the worker, and its replies go under way
PollRecvNet ==
    /\ net # <<>>
    /\ Received(<<Identity(run_id), Empty>> \o Head(net))
    /\ net' = Tail(net)
    /\ back' = back \o [k \in 1..Len(sent') |-> Drop(sent'[k], 2)]

\* poll() of the worker receives the oldest reply under way
RecvNet ==
    /\ back # <<>>
    /\ Replied(Head(back))
    /\ back' = Tail(back)
    /\ net' = net

\* the session of the run: the worker program calls retrieve() first
SessionRetrieve ==
    /\ calls = 0
    /\ CallRetrieve

\* the session of the run: after the simulation the worker program calls transmit()
SessionTransmit ==
    /\ calls = 1
    /\ CallTransmit

NextSession ==
    \/ PollCall
    \/ PollRecvNet
    \/ PollReturn
    \/ SessionRetrieve
    \/ SessionTransmit
    \/ \E v \in 1..MaxVal : \E t \in 1..MaxVal : Compute(v, t)
    \/ SendNet
    \/ Timeout
    \/ RecvNet

----------------------------------------------------------------------------
(* Component: the registry of subclasses (util/component.py)                 *)
(* A class is known by its __name__; a dict `_components` is known by the    *)
(* class whose definition created it.                                        *)

\* the classes a program defines, in the order of their definition
ClassOrder ==
    <<"RunnerInterface", "WorkerInterface", "ZeroMQRunnerInterface",
      "ZeroMQWorkerInterface">>

ClassNames == { ClassOrder[n] : n \in 1..Len(ClassOrder) }

\* labels given with label=... or to register()
Labels == {"zeromq"}

\* labels looked up with Base[label]: every label a dict can hold, and one it
\* never holds
AllLabels == Labels \cup ClassNames \cup {"memmap"}

\* {}
EmptyDict == [l \in {} |-> ""]

\* class Component(ABC): _components = {}; component = "Component"
RootClass == [parent |-> "Component", component |-> "Component",
              components |-> "Component"]

\* variant: an existing label keeps its class
register_KeepsFirst(regs, k, cls, label, subcls) ==
    [regs EXCEPT ![k[cls].components] = @ @@ (label :> subcls)]

\* cls.register(label)(subcls): cls._components[label] = subcls
register(regs, k, cls, label, subcls) ==
    [regs EXCEPT ![k[cls].components] = (label :> subcls) @@ @]

RECURSIVE BaseIn(_, _)
\* the component base of class c: its ancestor that derives from Component itself
BaseIn(k, c) ==
    IF c = "Component" \/ k[c].parent = "Component" THEN c
    ELSE BaseIn(k, k[c].parent)

\* history: subcls is now the class registered last under label at base b
Noted(lat, b, label, subcls) ==
    (b :> ((label :> subcls) @@ (IF b \in DOMAIN lat THEN lat[b] ELSE EmptyDict)))
        @@ lat

\* variant: a class that derives from Component gets no registry of its own
init_subclass_SharedRegistry(name, parent, lab) ==
    /\ Cardinality(DOMAIN klass) <= MaxClasses
    /\ Cardinality(DOMAIN klass) <= Len(ClassOrder)
    /\ name = ClassOrder[Cardinality(DOMAIN klass)]
    /\ parent \in DOMAIN klass
    /\ LET inherited == klass[parent]
           fresh == inherited.component = "Component"
           label == IF fresh /\ lab = <<>> THEN <<name>> ELSE lab
           cls == [parent |-> parent,
                   component |-> IF fresh THEN label[1] ELSE inherited.component,
                   components |-> inherited.components]
           k == (name :> cls) @@ klass
       IN  /\ klass' = k
           /\ registries' = IF label # <<>>
                             THEN register(registries, k, name, label[1], name)
                             ELSE registries
           /\ latest' = IF label # <<>>
                         THEN Noted(latest, BaseIn(k, name), label[1], name)
                         ELSE latest
    /\ UNCHANGED <<cvars, wvars, nvars>>

\* class name(parent, label=lab): ... runs parent.__init_subclass__ on the new
\* class; lab is <<>> for label=None
init_subclass(name, parent, lab) ==
    /\ Cardinality(DOMAIN klass) <= MaxClasses
    /\ Cardinality(DOMAIN klass) <= Len(ClassOrder)
    /\ name = ClassOrder[Cardinality(DOMAIN klass)]
    /\ parent \in DOMAIN klass
    /\ LET inherited == klass[parent]
           fresh == inherited.component = "Component"
           label == IF fresh /\ lab = <<>> THEN <<name>> ELSE lab
           cls == [parent |-> parent,
                   component |-> IF fresh THEN label[1] ELSE inherited.component,
                   components |-> IF fresh THEN name ELSE inherited.components]
           k == (name :> cls) @@ klass
           regs == IF fresh THEN (name :> EmptyDict) @@ registries ELSE registries
       IN  /\ klass' = k
           /\ registries' = IF label # <<>>
                             THEN register(regs, k, name, label[1], name)
                             ELSE regs
           /\ latest' = IF label # <<>>
                         THEN Noted(latest, BaseIn(k, name), label[1], name)
                         ELSE latest
    /\ UNCHANGED <<cvars, wvars, nvars>>

\* cls.register(label)(subcls), called by the program
Register(cls, label, subcls) ==
    /\ cls \in DOMAIN klass
    /\ subcls \in DOMAIN klass \ {"Component"}
    /\ klass' = klass
    /\ registries' = register(registries, klass, cls, label, subcls)
    /\ latest' = Noted(latest, BaseIn(klass, cls), label, subcls)
    /\ UNCHANGED <<cvars, wvars, nvars>>

\* cls[label]: cls._components[label], or KeyError
class_getitem(cls, label) ==
    LET d == registries[klass[cls].components] IN
    IF label \in DOMAIN d THEN [ok |-> TRUE, val |-> d[label]]
    ELSE [ok |-> FALSE, val |-> "KeyError"]

InitComponent ==
    /\ klass = ("Component" :> RootClass)
    /\ registries = ("Component" :> EmptyDict)
    /\ latest = ("Component" :> EmptyDict)

NextComponent ==
    \/ \E name \in ClassNames : \E parent \in DOMAIN klass :
         \E lab \in {<<>>} \cup { <<l>> : l \in Labels } :
            init_subclass(name, parent, lab)
    \/ \E cls \in DOMAIN klass : \E label \in Labels :
         \E subcls \in DOMAIN klass : Register(cls, label, subcls)

----------------------------------------------------------------------------
(* Specifications *)

Init == InitCoord /\ InitWorker /\ InitNet /\ InitComponent

\* the coordinator after construction, beside a worker that is never called
InitRunner == Init /\ retries = 0

\* the coordinator alone, the worker never called
SpecCoord == InitRunner /\ [][NextCoord]_vars

\* the coordinator alone, serving the workers of its runs
SpecRuns == InitRunner /\ [][NextRuns]_vars

\* one worker alone, the coordinator never polled
SpecWorker == Init /\ [][NextWorker]_vars

\* the coordinator and the worker of one run in its session: retrieve(), then
\* transmit(), each called once
SpecSession == Init /\ [][NextSession]_vars

\* the wait of poll() ends: socket.poll(timeout=...) reports a message or times out
PollWaitEnds == PollRecvNet \/ PollReturn

\* the session with a coordinator whose thread keeps running inside poll()
SpecSessionLive == Init /\ [][NextSession]_vars /\ WF_vars(PollWaitEnds)

\* the wait of request() in the session ends with a timeout or a reply
WaitEnds == Timeout \/ RecvNet

\* the session in which both threads keep running: the caller of the worker
\* calls retrieve() and then transmit(), a message to send is sent, and the
\* timeouts of socket.poll() bound the waits of worker and coordinator
SpecSessionFair ==
    /\ Init
    /\ [][NextSession]_vars
    /\ WF_vars(PollWaitEnds)
    /\ WF_vars(SessionRetrieve)
    /\ WF_vars(SessionTransmit)
    /\ WF_vars(SendNet)
    /\ WF_vars(WaitEnds)

\* the wait of request() ends: socket.poll(timeout=...) reports a reply or times out
PollEnds == Timeout \/ \E r \in Replies : Recv(r)

\* the worker in its session, with any peer
NextWorkerSession ==
    \/ SessionRetrieve
    \/ SessionTransmit
    \/ \E v \in 1..MaxVal : \E t \in 1..MaxVal : Compute(v, t)
    \/ Send
    \/ Timeout
    \/ \E r \in Replies : Recv(r)

\* one worker alone in its session, whose thread keeps running: a message to send
\* is sent, and the timeout of socket.poll() bounds every wait
SpecWorkerLive ==
    Init /\ [][NextWorkerSession]_vars /\ WF_vars(Send) /\ WF_vars(PollEnds)

\* the worker in its session, with any peer, and a caller that cleans up
NextWorkerClean ==
    \/ NextWorkerSession
    \/ Clean

\* one worker alone: retrieve(), then transmit(), and clean() at any time
\* between and after the calls
SpecWorkerClean == Init /\ [][NextWorkerClean]_vars

\* a program that defines and registers components; coordinator and worker
\* are not run
SpecComponent == InitRunner /\ [][NextComponent]_vars

----------------------------------------------------------------------------
(* Properties of the coordinator, checked under SpecCoord *)

\* the text [["u", "uint8"]]
InputSchemaText ==
    Bytes(<<"[", "[", "\"", "u", "\"", ",", " ", "\"", "u", "i", "n", "t", "8", "\"",
            "]", "]">>)
\* the text [["f", "uint16", []]]
OutputSchemaText ==
    Bytes(<<"[", "[", "\"", "f", "\"", ",", " ", "\"", "u", "i", "n", "t", "1", "6",
            "\"", ",", " ", "[", "]", "]", "]">>)

ReadyMsg(i) == <<Identity(i), Empty, READY>>
DataMsg(i, v) == <<Identity(i), Empty, DATA, ToBytes(v, 2)>>
TimeMsg(i, t) == <<Identity(i), Empty, TIME, ToBytes(t, 8)>>

\* a step in which poll() received a message and handle_msg() handled it
Handles == handled' = handled + 1

TableUnchanged == input' = input /\ output' = output /\ internal' = internal

\* text that denotes an integer: optional blanks around an optional sign and digits
IntText(s) ==
    LET t == RStrip(LStrip(s))
        d == IF t # <<>> /\ t[1] \in {43, 45} THEN Tail(t) ELSE t
    IN  d # <<>> /\ \A k \in 1..Len(d) : IsDigit(d[k])

\* the run ids that are not in [0, size)
OutOfRange == ((-(Size + 1))..Size) \ Runs

\* C1: whenever the message being handled is READY from "req_i" with i in
\* [0, size), exactly one message was sent for it, namely [address, empty frame,
\* input schema text, input record of run i, output schema text], and run i has
\* the ASSIGNED bit set.
C1_ReadyReply ==
    \A i \in Runs :
        msg = ReadyMsg(i) =>
            /\ sent = << <<Identity(i), Empty, InputSchemaText, <<SampleInput(i)>>,
                           OutputSchemaText>> >>
            /\ HasBit(internal[i].FLAGS, ASSIGNED)
            /\ cexc = "none"

C1_Witness ==
    /\ msg = ReadyMsg(1)
    /\ Len(sent) = 1
    /\ HasBit(internal[1].FLAGS, ASSIGNED)
    /\ ~HasBit(internal[0].FLAGS, ASSIGNED)

\* C2: whenever the message being handled is DATA from "req_i" with a payload of
\* the output schema, output[i] is that payload, DONE is true, COMPLETED is set,
\* the one message sent is [address, empty frame, ACK] and nothing was raised;
\* this also holds when output[i] had been written before (last write wins).
C2_DataStored ==
    \A i \in Runs : \A v \in 1..MaxVal :
        msg = DataMsg(i, v) =>
            /\ output[i] = v
            /\ internal[i].DONE
            /\ HasBit(internal[i].FLAGS, COMPLETED)
            /\ sent = << <<Identity(i), Empty, ACK>> >>
            /\ cexc = "none"

\* the second DATA for run 1 arrived with another value than the first
C2_Witness ==
    /\ msg = DataMsg(1, 2)
    /\ writes[1].output = 2
    /\ output[1] = 2
    /\ internal[1].DONE

\* C3: a message whose address does not start with "req_", or whose remainder is
\* not the text of an integer, is handled without sending anything and without
\* changing input, output, status, done or elapsed of any run, whatever its verb.
C3_UnmatchedIgnored ==
    [][ (Handles /\ (Take(msg'[1], 4) # REQ_ \/ ~IntText(Drop(msg'[1], 4))))
            => (sent' = <<>> /\ TableUnchanged) ]_vars

\* a DATA with a good payload from "rep_0" arrived after run 0 was assigned
C3_Witness ==
    /\ handled = 2
    /\ msg = <<Bytes(<<"r", "e", "p", "_", "0">>), Empty, DATA, ToBytes(1, 2)>>
    /\ sent = <<>>
    /\ internal[0].FLAGS = ASSIGNED
    /\ output[0] = 0

\* C4: a message from "req_n" with n out of range (n < 0 or n >= size), with verb
\* READY, DATA, TIME or DIE, is handled without sending anything and without
\* changing any run.
C4_OutOfRangeIgnored ==
    [][ (/\ Handles
         /\ \E n \in OutOfRange : msg'[1] = Identity(n)
         /\ Len(msg') >= 3
         /\ msg'[3] \in {READY, DATA, TIME, DIE})
            => (sent' = <<>> /\ TableUnchanged) ]_vars

\* a message with an unparseable or out-of-range run id, an unknown verb or a
\* missing payload frame
BadMessage(m) ==
    \/ (Take(m[1], 4) = REQ_ /\ ~IntText(Drop(m[1], 4)))
    \/ \E n \in OutOfRange : m[1] = Identity(n)
    \/ (Len(m) >= 3 /\ m[3] \notin {READY, DATA, TIME, DIE})
    \/ (Len(m) = 3 /\ m[3] \in {DATA, TIME})

\* C5: handling one bad message does not make poll() fail: the loop goes on and
\* can receive the next message.
C5_KeepsServing ==
    [][ (Handles /\ BadMessage(msg')) => (cexc' = "none" /\ cpc' = "poll") ]_vars

\* C12: in every state of the coordinator and for every run, the COMPLETED bit
\* of the status implies that the run is marked done.
C12_CompletedIsDone ==
    \A i \in Runs : HasBit(internal[i].FLAGS, COMPLETED) => internal[i].DONE

\* run 0 was assigned and has reported its output, run 1 is untouched
C12_Witness ==
    /\ internal[0].FLAGS = ASSIGNED + COMPLETED
    /\ internal[0].DONE
    /\ writes[0].output = 1
    /\ ~internal[1].DONE

\* run i after READY, DATA with v and TIME with t, and nothing else, were handled
Reported(i, v, t) ==
    /\ output[i] = v
    /\ internal[i] = [DONE |-> TRUE, TIME |-> t, FLAGS |-> ASSIGNED + COMPLETED]

\* C13: for a run i in [0, size) whose READY was handled, handling DATA with v
\* and then TIME with t, and handling TIME with t and then DATA with v, both end
\* with COMPLETED set and done true, and with the same output v, elapsed t,
\* status and done.
C13_OrderIrrelevant ==
    [][ \A i \in Runs : \A v \in 1..MaxVal : \A t \in 1..MaxVal :
          /\ (/\ Handles /\ msg' = TimeMsg(i, t)
              /\ internal[i] = [DONE |-> TRUE, TIME |-> 0, FLAGS |-> ASSIGNED + COMPLETED]
              /\ output[i] = v
              /\ writes[i] = [output |-> 1, TIME |-> 0])
                 => (Reported(i, v, t))'
          /\ (/\ Handles /\ msg' = DataMsg(i, v)
              /\ internal[i] = [DONE |-> FALSE, TIME |-> t, FLAGS |-> ASSIGNED]
              /\ writes[i] = [output |-> 0, TIME |-> 1])
                 => (Reported(i, v, t))' ]_vars

\* READY, TIME and then DATA of run 1 were handled
C13_Witness ==
    /\ handled = 3
    /\ msg = DataMsg(1, 2)
    /\ writes[1] = [output |-> 1, TIME |-> 1]
    /\ Reported(1, 2, 1)

\* READY, DATA and then TIME of run 1 were handled, with the same result
C13_WitnessDataFirst ==
    /\ handled = 3
    /\ msg = TimeMsg(1, 1)
    /\ writes[1] = [output |-> 1, TIME |-> 1]
    /\ Reported(1, 2, 1)

\* C14: handling a message from "req_i", i in [0, size), whatever follows the
\* delimiter, leaves input, output, status, done and elapsed of every other run
\* as they were; and if it is READY the one reply sent carries the input record
\* of run i, which is the record of no other run.
C14_OtherRunsUntouched ==
    [][ \A i \in Runs :
          (Handles /\ msg'[1] = Identity(i)) =>
              /\ \A j \in Runs \ {i} :
                    /\ input'[j] = input[j]
                    /\ output'[j] = output[j]
                    /\ internal'[j] = internal[j]
              /\ msg' = ReadyMsg(i) =>
                    /\ Len(sent') = 1
                    /\ sent'[1][1] = Identity(i)
                    /\ sent'[1][4] = <<SampleInput(i)>>
                    /\ \A j \in Runs \ {i} : sent'[1][4] # <<SampleInput(j)>> ]_vars

\* DIE from run 0 arrived after run 1 was assigned: run 1 is as it was
C14_Witness ==
    /\ handled = 2
    /\ msg = <<Identity(0), Empty, DIE>>
    /\ internal[0].FLAGS = TERMINATED
    /\ internal[1].FLAGS = ASSIGNED

\* output, elapsed, status and done of run i
RunRecord(i) == [output |-> output[i], internal |-> internal[i]]

\* the record of a run after the coordinator handled the frames p of its worker,
\* when the campaign has no other run
AloneStep(rec, p) ==
    IF p[1] = READY
    THEN [rec EXCEPT !.internal.FLAGS = BitOr(@, ASSIGNED)]
    ELSE IF p[1] = DATA
    THEN [output |-> FromBytes(p[2]),
          internal |-> [rec.internal EXCEPT !.DONE = TRUE,
                                            !.FLAGS = BitOr(@, COMPLETED)]]
    ELSE [rec EXCEPT !.internal.TIME = FromBytes(p[2])]

\* C26: when messages of the workers of several runs are handled in any
\* interleaving, each step that handles a message of run i takes the record of
\* run i (output, elapsed, status, done) to what handling that message alone
\* gives, whatever the records of the other runs are, and leaves the records of
\* the other runs as they were; so each run ends as if its session ran alone.
C26_RunsIndependent ==
    [][ \A i \in Runs :
          (Handles /\ msg'[1] = Identity(i)) =>
              /\ RunRecord(i)' = AloneStep(RunRecord(i), Drop(msg', 2))
              /\ \A j \in Runs \ {i} : RunRecord(j)' = RunRecord(j)
              /\ cexc' = "none" ]_vars

\* TIME of run 1 was handled while the session of run 0 is under way too
C26_Witness ==
    /\ handled = 3
    /\ msg = TimeMsg(1, 1)
    /\ RunRecord(0) = [output |-> 0,
                       internal |-> [DONE |-> FALSE, TIME |-> 0, FLAGS |-> ASSIGNED]]
    /\ RunRecord(1) = [output |-> 0,
                       internal |-> [DONE |-> FALSE, TIME |-> 1, FLAGS |-> ASSIGNED]]
    /\ writes[1] = [output |-> 0, TIME |-> 1]

\* C15: in every state of the coordinator the input record of every run is the
\* one it had at campaign start, whatever messages were handled.
C15_InputImmutable ==
    \A i \in Runs : input[i] = SampleInput(i)

\* READY and then DATA of run 1 were handled: its input is still the sample
C15_Witness ==
    /\ handled = 2
    /\ msg = DataMsg(1, 2)
    /\ internal[1].FLAGS = ASSIGNED + COMPLETED
    /\ output[1] = 2
    /\ input[1] = SampleInput(1)

\* C17: when the DATA (or TIME) message of run i that was handled last arrives
\* again, handling it leaves input, output, status, done and elapsed of every
\* run as they were after the first time, and it is answered with ACK again.
C17_RedeliveryIdempotent ==
    [][ (/\ Handles
         /\ cexc = "none"
         /\ msg' = msg
         /\ \E i \in Runs : \E v \in 1..MaxVal : msg \in {DataMsg(i, v), TimeMsg(i, v)})
            => (/\ TableUnchanged
                /\ sent' = <<AckReply(msg[1])>>
                /\ cexc' = "none") ]_vars

\* the same TIME of run 1 was handled twice
C17_Witness ==
    /\ handled = 2
    /\ msg = TimeMsg(1, 2)
    /\ writes[1].TIME = 2
    /\ internal[1].TIME = 2
    /\ sent = <<AckReply(Identity(1))>>

DieMsg(i) == <<Identity(i), Empty, DIE>>

\* C21: handling TIME with value t from "req_i", i in [0, size), sets the elapsed
\* time of run i to t, sends the one reply [address, empty frame, ACK], and leaves
\* status, done and output of run i as they were.
C21_TimeStored ==
    [][ \A i \in Runs : \A t \in 1..MaxVal :
          (Handles /\ msg' = TimeMsg(i, t)) =>
              /\ internal'[i].TIME = t
              /\ sent' = << <<Identity(i), Empty, ACK>> >>
              /\ internal'[i].FLAGS = internal[i].FLAGS
              /\ internal'[i].DONE = internal[i].DONE
              /\ output'[i] = output[i]
              /\ cexc' = "none" ]_vars

\* TIME of run 0 was handled after its DATA: output, done and status are kept
C21_Witness ==
    /\ handled = 2
    /\ msg = TimeMsg(0, 2)
    /\ internal[0] = [DONE |-> TRUE, TIME |-> 2, FLAGS |-> COMPLETED]
    /\ output[0] = 1

\* C22: handling DIE from "req_i", i in [0, size), sets the TERMINATED bit of
\* run i, sends the one reply [address, empty frame, ACK], and leaves the other
\* status bits, done, output and elapsed of run i as they were.
C22_DieMarks ==
    [][ \A i \in Runs :
          (Handles /\ msg' = DieMsg(i)) =>
              /\ HasBit(internal'[i].FLAGS, TERMINATED)
              /\ \A b \in {ASSIGNED, COMPLETED} :
                    HasBit(internal'[i].FLAGS, b) = HasBit(internal[i].FLAGS, b)
              /\ sent' = << <<Identity(i), Empty, ACK>> >>
              /\ internal'[i].DONE = internal[i].DONE
              /\ internal'[i].TIME = internal[i].TIME
              /\ output'[i] = output[i]
              /\ cexc' = "none" ]_vars

\* DIE of run 1 was handled after its READY: both bits are set
C22_Witness ==
    /\ handled = 2
    /\ msg = DieMsg(1)
    /\ internal[1] = [DONE |-> FALSE, TIME |-> 0, FLAGS |-> ASSIGNED + TERMINATED]

\* C23: a message from an address "req_" plus the text of an integer whose verb
\* is none of READY, DATA, TIME, DIE is handled without a reply, without a change
\* of any run and without an exception.
C23_UnknownVerbIgnored ==
    [][ (/\ Handles
         /\ Take(msg'[1], 4) = REQ_
         /\ IntText(Drop(msg'[1], 4))
         /\ Len(msg') >= 3
         /\ msg'[3] \notin {READY, DATA, TIME, DIE})
            => (sent' = <<>> /\ TableUnchanged /\ cexc' = "none") ]_vars

\* PING from run 1 was handled after its READY
C23_Witness ==
    /\ handled = 2
    /\ msg = <<Identity(1), Empty, PING>>
    /\ sent = <<>>
    /\ cexc = "none"
    /\ internal[1].FLAGS = ASSIGNED

\* C24: a DATA message from "req_i", i in [0, size), whose payload has not the
\* length of one output record is dropped: no run changes, no reply is sent, and
\* poll() goes on to the next message.
C24_BadDataDropped ==
    [][ \A i \in Runs :
          (/\ Handles
           /\ Len(msg') = 4
           /\ SubSeq(msg', 1, 3) = <<Identity(i), Empty, DATA>>
           /\ Len(msg'[4]) # 2)
              => (/\ TableUnchanged
                  /\ sent' = <<>>
                  /\ cexc' = "none"
                  /\ cpc' = "poll") ]_vars

\* the messages that ask for a reply: READY, DIE, DATA with an output record and
\* TIME with an unsigned integer from "req_i", i in [0, size)
Soliciting ==
    { ReadyMsg(i) : i \in Runs } \cup { DieMsg(i) : i \in Runs }
    \cup { DataMsg(i, v) : i \in Runs, v \in 1..MaxVal }
    \cup { TimeMsg(i, v) : i \in Runs, v \in 1..MaxVal }

\* C29: every reply bears the address of the message being handled as its first
\* frame and an empty second frame; one message gets at most one reply, a
\* soliciting message exactly one; a reply is sent only for READY, DATA, TIME or
\* DIE, and nothing is sent in a step that handles no message.
C29_ReplyEnvelope ==
    [][ /\ Handles =>
              /\ Len(sent') <= 1
              /\ \A k \in 1..Len(sent') :
                    sent'[k][1] = msg'[1] /\ sent'[k][2] = Empty
              /\ msg' \in Soliciting => Len(sent') = 1
              /\ Len(sent') = 1 =>
                    (Len(msg') >= 3 /\ msg'[3] \in {READY, DATA, TIME, DIE})
        /\ ~Handles => sent' = sent ]_vars

\* DIE of run 0 was answered, after a message that got no reply
C29_Witness ==
    /\ handled = 2
    /\ msg = DieMsg(0)
    /\ sent = << <<Identity(0), Empty, ACK>> >>
    /\ internal[1].FLAGS = 0
    /\ internal[0].FLAGS = TERMINATED

\* C30: in every state of the coordinator a run with the COMPLETED bit has the
\* ASSIGNED bit.
C30_CompletedIsAssigned ==
    \A i \in Runs :
        HasBit(internal[i].FLAGS, COMPLETED) => HasBit(internal[i].FLAGS, ASSIGNED)

\* C33: no step clears the ASSIGNED, TERMINATED or COMPLETED bit of a run or
\* takes done from true to false, whatever message is handled.
C33_StatusMonotone ==
    [][ \A i \in Runs :
          /\ \A bit \in {ASSIGNED, TERMINATED, COMPLETED} :
                HasBit(internal[i].FLAGS, bit) => HasBit(internal'[i].FLAGS, bit)
          /\ internal[i].DONE => internal'[i].DONE ]_vars

\* READY of run 0 was handled after its DATA: the run is still done and COMPLETED
C33_Witness ==
    /\ handled = 2
    /\ msg = ReadyMsg(0)
    /\ internal[0].DONE
    /\ internal[0].FLAGS = ASSIGNED + COMPLETED

----------------------------------------------------------------------------
(* Properties of the worker, checked under SpecWorker *)

\* the reply the coordinator gives to READY of the worker's run
GoodReady == <<InputSchemaText, <<SampleInput(run_id)>>, OutputSchemaText>>

\* a reply that answers request v: the three READY frames, or exactly ACK
WellFormed(v, r) == IF v = "READY" THEN r = GoodReady ELSE r = <<ACK>>

\* a step of request() in which the wait ended with a reply
RecvStep == wpc = "poll" /\ tries' # tries + 1

\* request() returned to its caller without an exception
ReturnedStep ==
    /\ wexc' = "none"
    /\ IF call = "transmit" /\ request = "TIME"
       THEN wpc' = "send" /\ request' = "DATA"
       ELSE wpc' = "idle" /\ call' = "none"

\* C6: in a request() whose attempts all time out, the loop runs only while
\* fewer than retries + 1 attempts have timed out, each attempt is one send, and
\* the connection error is raised with exactly retries + 1 messages sent and the
\* socket closed; once it is raised nothing more is sent.
C6_ExhaustedAfterRetries ==
    [][ /\ (wpc' \in {"send", "poll"} /\ malformed' = 0) => tries' <= retries'
        /\ (wpc' = "poll" /\ malformed' = 0) => nsent' = tries' + 1
        /\ (wexc' = "ConnectionError" /\ malformed' = 0) =>
               /\ nsent' = retries' + 1
               /\ wpc' = "raised"
               /\ ~conn'.connected
               /\ conn'.socket \notin conn'.open
        /\ wexc = "ConnectionError" =>
               (nsent' = nsent /\ wmsg' = wmsg /\ wexc' = wexc) ]_vars

\* transmit() gave up on TIME after MaxRetries + 1 sends
C6_Witness ==
    /\ wexc = "ConnectionError"
    /\ malformed = 0
    /\ retries = MaxRetries
    /\ nsent = MaxRetries + 1
    /\ call = "transmit"
    /\ request = "TIME"
    /\ ~conn.connected

\* C7: when `retries` attempts of a request() have timed out and the next
\* attempt gets a well-formed reply, request() returns without an exception.
C7_SucceedsAfterRetries ==
    [][ (/\ RecvStep
         /\ tries = retries
         /\ malformed = 0
         /\ WellFormed(request, response'))
            => ReturnedStep ]_vars

\* transmit() returned after DATA was acknowledged on its last attempt
C7_Witness ==
    /\ wpc = "idle"
    /\ wexc = "none"
    /\ calls > 0
    /\ request = "DATA"
    /\ response = <<ACK>>
    /\ retries = MaxRetries
    /\ tries = retries
    /\ nsent = retries + 1
    /\ malformed = 0

\* C8: a request() that never gets a reply is abandoned after `retries` sends.
C8_RetriesIsTries ==
    (wexc = "ConnectionError" /\ malformed = 0) => nsent = retries

\* C9: request() with a verb outside READY, DATA, TIME raises the invalid-request
\* error and leaves the connection as it was: no socket opened, nothing sent.
C9_InvalidBeforeIO ==
    [][ (wpc = "idle" /\ call' = "request" /\ request' \notin {"READY", "DATA", "TIME"})
            => (/\ wexc' = "ValueError"
                /\ wpc' = "raised"
                /\ conn' = conn
                /\ nsent' = 0) ]_vars

\* C10: after a malformed reply the retry counter is unchanged, the socket is
\* closed and a new one opened, and the same request with the same payload is
\* about to be sent again.
C10_MalformedResent ==
    [][ (RecvStep /\ ~WellFormed(request, response'))
            => (/\ tries' = tries
                /\ wpc' = "send"
                /\ wexc' = "none"
                /\ request' = request
                /\ woutput' = woutput
                /\ wtime' = wtime
                /\ conn'.connected
                /\ conn'.socket # conn.socket
                /\ conn.socket \notin conn'.open) ]_vars

\* a request() is in flight: it sent its message at least once and has neither
\* returned nor raised (a request() that follows begins with nsent = 0)
InFlight == wpc = "poll" \/ (wpc = "send" /\ nsent > 0)

\* a step in which a reply was caught as malformed and the loop went on
MalformedRetry == \E r \in Replies : TryBlock(request, r) = "retry" /\ Recv(r)

\* C11 as stated: every request() in flight eventually ends, whatever replies
\* and timeouts it observes.
C11_RequestEnds == InFlight ~> ~InFlight

\* C11: every request() in flight eventually ends (it returns or raises), in
\* every execution in which malformed replies stop arriving at some time.
C11_EndsUnlessMalformedForever ==
    <>[][~MalformedRetry]_vars => (InFlight ~> ~InFlight)

\* a request() that saw a malformed reply and then only timeouts gave up
C11_Witness ==
    /\ wpc = "raised"
    /\ wexc = "ConnectionError"
    /\ malformed > 0
    /\ retries = MaxRetries
    /\ tries = retries + 1

\* C27: a timeout that leaves tries below retries + 1 adds one to tries, closes
\* the socket, opens a new one (connect() gives it the identity req_<run_id>) and
\* goes back to the send, which sends the message of the same request again; and
\* a wait ends only with a reply or with the socket closed, so no request is
\* sent on a socket that still awaits a reply.
C27_TimeoutReconnects ==
    /\ [][ (Timeout /\ ~Exhausted(tries + 1)) =>
              /\ tries' = tries + 1
              /\ conn.socket \notin conn'.open
              /\ conn'.socket # conn.socket
              /\ conn'.connected
              /\ conn'.socket \in conn'.open
              /\ request' = request
              /\ wpc' = "send"
              /\ wexc' = wexc ]_vars
    /\ [][ Send => (/\ wmsg' = RequestMsg(request)
                    /\ conn.connected
                    /\ nsent > 0 => wmsg' = wmsg) ]_vars
    /\ [][ (wpc = "poll" /\ wpc' # "poll") =>
              (conn.socket \notin conn'.open \/ \E r \in Replies : Recv(r)) ]_vars

\* the first attempt timed out and the request was sent again on a new socket
C27_Witness ==
    /\ wpc = "poll"
    /\ retries >= 1
    /\ tries = 1
    /\ malformed = 0
    /\ nsent = 2
    /\ wmsg = RequestMsg(request)
    /\ conn = [connected |-> TRUE, socket |-> 2, open |-> {2}]

\* a step that begins a call of request(): from the caller, or DATA after TIME
\* inside transmit()
RequestBegins == wpc' = "send" /\ (wpc = "idle" \/ request' # request)

\* C34: tries is 0 when a call of request() begins, also the call for DATA that
\* follows TIME in transmit(); within a call only a timeout changes it, adding
\* one, so a malformed reply neither counts nor resets it; and ConnectionError
\* is raised exactly in the timeout that brings tries to retries + 1.
C34_CumulativeTimeouts ==
    /\ [][ /\ RequestBegins => tries' = 0
           /\ Timeout => tries' = tries + 1
           /\ tries' # tries =>
                  (Timeout \/ (tries' = 0 /\ (wpc = "idle" \/ request' # request)))
           /\ (wexc # "ConnectionError" /\ wexc' = "ConnectionError")
                  <=> (Timeout /\ tries' = retries + 1) ]_vars
    /\ [](wpc \in {"send", "poll"} => tries <= retries)

\* with retries = 1: a timeout, a malformed reply, and the second timeout raised
C34_Witness ==
    /\ wexc = "ConnectionError"
    /\ retries = 1
    /\ tries = 2
    /\ malformed = 1
    /\ nsent = 3

\* C35: the flag _connected is true exactly when the worker has an open socket,
\* which then is its only one; it is so while a request is sent or awaited;
\* when retrieve() or transmit() ends, by returning or with ConnectionError, no
\* socket is open and the flag is false; clean() closes the socket when the flag
\* is true and does nothing when it is false, so a second clean() does nothing.
C35_FlagTracksSocket ==
    /\ [](conn.open = IF conn.connected THEN {conn.socket} ELSE {})
    /\ [](wpc \in {"send", "poll"} => conn.connected)
    /\ [][ /\ (call # "none" /\ (call' = "none" \/ wexc' = "ConnectionError")) =>
                  (~conn'.connected /\ conn'.open = {})
           /\ Clean =>
                  (/\ ~conn'.connected
                   /\ conn'.open = {}
                   /\ conn.connected => conn.socket \notin conn'.open
                   /\ ~conn.connected => UNCHANGED vars) ]_vars

\* retrieve() was left by an exception of the decoding with the socket open, and
\* clean() has closed it
C35_Witness ==
    /\ wpc = "raised"
    /\ call = "retrieve"
    /\ wexc \notin {"none", "ConnectionError"}
    /\ ~conn.connected
    /\ conn.open = {}
    /\ conn.socket >= 1

----------------------------------------------------------------------------
(* Properties of coordinator and worker together, checked under SpecSession *)

\* C16: in a session of one worker (retrieve() once, then transmit() once) the
\* coordinator assigns the output of each run at most once and its elapsed time
\* at most once, also when requests time out and are sent again.
C16_WrittenOnce ==
    \A i \in Runs : writes[i].output <= 1 /\ writes[i].TIME <= 1

\* C18: whenever the coordinator handles TIME or DATA of the worker's run, it has
\* handled READY of that run before: the run bears the ASSIGNED bit, which only
\* handling READY sets.
C18_ReadyFirst ==
    [][ (/\ Handles
         /\ msg'[1] = Identity(run_id)
         /\ msg'[3] \in {TIME, DATA})
            => HasBit(internal[run_id].FLAGS, ASSIGNED) ]_vars

\* the coordinator has handled READY, TIME and DATA of the session
C18_Witness ==
    /\ handled >= 3
    /\ msg[3] = DATA
    /\ internal[run_id].FLAGS = ASSIGNED + COMPLETED
    /\ writes[run_id].TIME >= 1

\* C19: a session is sequential.  While retrieve() runs it performs READY, while
\* transmit() runs it performs TIME or DATA, in both on the one open socket;
\* DATA begins only in the step in which TIME returned on an ACK; when retrieve()
\* or transmit() returns the worker is disconnected; and at no time is more than
\* one socket open, so at most one request of the session awaits its reply.
C19_Sequential ==
    [][ /\ (call' = "retrieve" /\ wpc' \in {"send", "poll"}) =>
               (request' = "READY" /\ conn'.connected /\ conn'.open = {conn'.socket})
        /\ (call' = "transmit" /\ wpc' \in {"send", "poll"}) =>
               (/\ request' \in {"TIME", "DATA"}
                /\ conn'.connected
                /\ conn'.open = {conn'.socket})
        /\ (request' = "DATA" /\ request # "DATA") =>
               (/\ call = "transmit" /\ request = "TIME" /\ wpc = "poll"
                /\ response' = <<ACK>>
                /\ wexc' = "none")
        /\ (call # "none" /\ call' = "none") =>
               (/\ wexc' = "none"
                /\ request' = (IF call = "retrieve" THEN "READY" ELSE "DATA")
                /\ ~conn'.connected
                /\ conn'.open = {})
        /\ Cardinality(conn'.open) <= 1 ]_vars

\* transmit() returned; its DATA had timed out once and was sent again
C19_Witness ==
    /\ call = "none"
    /\ calls = 2
    /\ wpc = "idle"
    /\ wexc = "none"
    /\ request = "DATA"
    /\ tries = 1
    /\ ~conn.connected
    /\ conn.open = {}

\* C25: poll() receives the queued messages oldest first, it returns only from a
\* wait that found the queue empty, so every message that was queued or arrived
\* while it ran has been handled, and no wait lasts forever.
C25_PollDrains ==
    /\ [][Handles => ( /\ net # <<>>
                       /\ msg' = <<Identity(run_id), Empty>> \o Head(net)
                       /\ net' = Tail(net) )]_vars
    /\ [][(cpc = "poll" /\ cpc' # "poll") => (cpc' = "idle" /\ net = <<>>)]_vars
    /\ []<>(cpc # "poll")

\* poll() returned after it handled the two TIME the worker had sent while it ran
C25_Witness ==
    /\ cpc = "idle"
    /\ net = <<>>
    /\ handled >= 3
    /\ msg[3] = TIME
    /\ writes[run_id].TIME = 2

\* C28: the step in which request() gives up with ConnectionError sends nothing
\* and changes nothing at the coordinator; after it the worker does nothing more,
\* so the queue of the coordinator only shrinks; when it was TIME of transmit()
\* that was given up, no DATA was sent, is queued or was handled; and no run
\* ever bears the TERMINATED bit.
C28_ExhaustionSilent ==
    /\ [][ (wexc # "ConnectionError" /\ wexc' = "ConnectionError") =>
              (net' = net /\ UNCHANGED cvars) ]_vars
    /\ [][ wexc = "ConnectionError" =>
              (/\ UNCHANGED wvars
               /\ net' = net \/ (Handles /\ net' = Tail(net))) ]_vars
    /\ [] ( (wexc = "ConnectionError" /\ request = "TIME") =>
              /\ call = "transmit"
              /\ \A k \in 1..Len(net) : net[k][1] # DATA
              /\ writes[run_id].output = 0
              /\ ~internal[run_id].DONE
              /\ ~HasBit(internal[run_id].FLAGS, COMPLETED) )
    /\ [] (\A i \in Runs : ~HasBit(internal[i].FLAGS, TERMINATED))

\* transmit() gave up its TIME; the coordinator has handled a TIME sent before
C28_Witness ==
    /\ wexc = "ConnectionError"
    /\ call = "transmit"
    /\ request = "TIME"
    /\ net = <<>>
    /\ internal[run_id] = [DONE |-> FALSE, TIME |-> wtime, FLAGS |-> ASSIGNED]
    /\ writes[run_id].TIME >= 1

\* C31: whenever request("TIME") of transmit() returns on an ACK the coordinator
\* has stored the elapsed time of the run, and whenever request("DATA") returns
\* on an ACK the coordinator has stored the output of the run and marked it
\* done, also when an earlier request timed out and its ACK comes late.
C31_AckMeansRecorded ==
    [][ /\ (wpc = "poll" /\ request = "TIME" /\ request' = "DATA") =>
               (/\ writes[run_id].TIME >= 1
                /\ internal[run_id].TIME = wtime)
        /\ (wpc = "poll" /\ request = "DATA" /\ wpc' = "idle" /\ wexc' = "none") =>
               (/\ writes[run_id].output >= 1
                /\ output[run_id] = FromBytes(woutput)
                /\ internal[run_id].DONE) ]_vars

\* retrieve() and then transmit() have returned without an exception
SessionReturned == calls = 2 /\ call = "none" /\ wpc = "idle" /\ wexc = "none"

\* the run of the worker is done and bears the COMPLETED bit
RunCompleted == internal[run_id].DONE /\ HasBit(internal[run_id].FLAGS, COMPLETED)

\* C32 as stated: if poll() is called again and again and from some point on no
\* wait of the worker times out, the session returns without error and its run
\* becomes done and COMPLETED.
C32_SessionCompletes ==
    ([]<>(cpc = "poll") /\ <>[][~Timeout]_vars)
        => (<>SessionReturned /\ <>RunCompleted)

\* C32, amended: the same for a session none of whose requests has used up its
\* retries.
C32_CompletesUnlessExhausted ==
    ([]<>(cpc = "poll") /\ <>[][~Timeout]_vars /\ [](wexc # "ConnectionError"))
        => (<>SessionReturned /\ <>RunCompleted)

\* the session returned after a timeout in transmit(), and the run is completed
C32_Witness ==
    /\ SessionReturned
    /\ RunCompleted
    /\ tries >= 1
    /\ net = <<>>

\* C20: when retrieve() returns without an exception, the worker's input record
\* is the coordinator's input record of its run, its output record is the two
\* zero bytes of one uint16 field, and the worker has no connection.
C20_RetrieveRoundTrip ==
    [][ (call = "retrieve" /\ call' = "none" /\ wexc' = "none")
            => (/\ winput' = <<input[run_id]>>
                /\ woutput' = <<0, 0>>
                /\ ~conn'.connected
                /\ conn'.open = {}) ]_vars

\* retrieve() returned after its first READY timed out
C20_Witness ==
    /\ call = "none"
    /\ wpc = "idle"
    /\ wexc = "none"
    /\ request = "READY"
    /\ tries = 1
    /\ winput = <<SampleInput(run_id)>>
    /\ woutput = <<0, 0>>
    /\ HasBit(internal[run_id].FLAGS, ASSIGNED)

----------------------------------------------------------------------------
(* Properties of the component registry, checked under SpecComponent *)

\* what cls[label] is to give: the class registered last under label at the
\* component base of cls, KeyError when none was
Resolves(cls, label) ==
    LET b == BaseIn(klass, cls) IN
    IF b \in DOMAIN latest /\ label \in DOMAIN latest[b]
    THEN [ok |-> TRUE, val |-> latest[b][label]]
    ELSE [ok |-> FALSE, val |-> "KeyError"]

\* the component bases: Component and the classes derived from it directly
ComponentBases == { c \in DOMAIN klass : klass[c].parent = "Component" }

\* what cls[label] gives for every label
Lookup(cls) == [label \in AllLabels |-> class_getitem(cls, label)]

\* C36: after any class definitions and calls of register(), Base[label] gives
\* the class registered last under that label at that component base (a later
\* registration replaces an earlier one) and raises KeyError for a label never
\* registered there; and no definition or registration changes the lookups of
\* more than one component base.
C36_Registry ==
    /\ [](\A cls \in DOMAIN klass : \A label \in AllLabels :
            class_getitem(cls, label) = Resolves(cls, label))
    /\ [][Cardinality({ b \in ComponentBases : Lookup(b)' # Lookup(b) }) <= 1]_vars

\* "zeromq" resolves to the class registered last at the runner base, which
\* replaced another, and still raises KeyError at the worker base
C36_Witness ==
    /\ {"RunnerInterface", "WorkerInterface", "ZeroMQRunnerInterface"}
           \subseteq DOMAIN klass
    /\ klass["RunnerInterface"].parent = "Component"
    /\ klass["WorkerInterface"].parent = "Component"
    /\ klass["ZeroMQRunnerInterface"].parent = "RunnerInterface"
    /\ class_getitem("RunnerInterface", "zeromq") =
           [ok |-> TRUE, val |-> "WorkerInterface"]
    /\ class_getitem("WorkerInterface", "zeromq") = [ok |-> FALSE, val |-> "KeyError"]
    /\ class_getitem("ZeroMQRunnerInterface", "zeromq").val = "WorkerInterface"

====
